---- MODULE Spec2Model ----
(***************************************************************************)
(* Model of the two scripts of mufi-bucket:                                *)
(*   update_mufiz.py  the Manifest Updater (specification Spec)            *)
(*   hashes.py        the Hash Reporter    (specification SpecReporter)    *)
(* Strings that the code inspects character by character (tags, versions)  *)
(* are sequences of one-character strings; asset names are sequences of    *)
(* name fragments; JSON objects are ordered sequences of key/value pairs   *)
(* (Python dicts keep insertion order); the manifest file is a sequence of *)
(* the tokens json.dump writes.                                            *)
(***************************************************************************)
EXTENDS Integers, Sequences, FiniteSets, TLC

VARIABLES
    dry_run,        \* "--dry-run" in sys.argv or "-n" in sys.argv
    disk,           \* the file at MANIFEST_PATH: [exists, text]
    disk0,          \* history: the file as it was when the run started
    pc,             \* position of the updater run
    release,        \* the release object returned by get_latest_release
    version,        \* update_manifest's local `version`
    manifest,       \* update_manifest's local `manifest`
    asset_urls,     \* update_manifest's local `asset_urls`
    updated_archs,  \* update_manifest's local `updated_archs`
    idx,            \* position of the for loop over asset_urls.items()
    out,            \* lines printed to standard output, in order
    exit_code,      \* process exit status, -1 while running
    net,            \* history: the GET requests issued, in order
    r_pc,           \* position of the Hash Reporter run
    r_i,            \* hashes.py loop index i (1-based here)
    output,         \* hashes.py `output` dict
    r_stdout        \* what hashes.py printed: the tokens of json.dumps(output)

vars == <<dry_run, disk, disk0, pc, release, version, manifest, asset_urls,
          updated_archs, idx, out, exit_code, net, r_pc, r_i, output, r_stdout>>

updaterVars == <<dry_run, pc, release, version, manifest, asset_urls,
                 updated_archs, idx, exit_code>>
reporterVars == <<r_pc, r_i, output, r_stdout>>

----------------------------------------------------------------------------
(* Bounds *)
MaxLeadingV == 2    \* most leading "v" characters of a release tag
MaxAssets == 3      \* longest release asset list
MaxBody   == 2      \* number of distinct response bodies the network serves

(* Program constants *)
DigestSize == 32    \* bytes in a SHA-256 digest
ExpectedAssets == 3 \* update_manifest: `if len(asset_urls) != 3`

----------------------------------------------------------------------------
(* Generic helpers *)
Range(s) == {s[i] : i \in 1..Len(s)}

SeqsUpTo(S, n) == UNION {[1..k -> S] : k \in 0..n}

(* Python str.lstrip with a one-character argument: removes EVERY leading   *)
(* occurrence of the character.                                             *)
RECURSIVE LStrip(_, _)
LStrip(s, c) ==
    IF s # <<>> /\ Head(s) = c THEN LStrip(Tail(s), c) ELSE s

(* Removes at most one leading occurrence (str.removeprefix). *)
RemovePrefix(s, c) ==
    IF s # <<>> /\ Head(s) = c THEN Tail(s) ELSE s

(* Ordered dict: a sequence of [k, v] with distinct keys. *)
DictKeys(d) == [i \in 1..Len(d) |-> d[i].k]
DictHas(d, key) == \E i \in 1..Len(d) : d[i].k = key
DictGet(d, key, default) ==
    IF DictHas(d, key)
    THEN d[CHOOSE i \in 1..Len(d) : d[i].k = key].v
    ELSE default
(* d[key] = value: an existing key keeps its position, a new key is appended *)
DictSet(d, key, value) ==
    IF DictHas(d, key)
    THEN [i \in 1..Len(d) |-> IF d[i].k = key THEN [k |-> key, v |-> value] ELSE d[i]]
    ELSE Append(d, [k |-> key, v |-> value])

(* JSON values of the manifest: strings and the architecture object. *)
Str(s) == [t |-> "str", s |-> s, a |-> <<>>]
Obj(a) == [t |-> "obj", s |-> <<>>, a |-> a]

----------------------------------------------------------------------------
(* SHA-256.  The compression function is not computed; the digest is a      *)
(* fixed DigestSize-byte function of the body that separates the bodies of  *)
(* the model.  hexdigest() is computed as the code does: two lowercase hex  *)
(* digits per byte.                                                         *)
HexDigits == <<"0","1","2","3","4","5","6","7","8","9","a","b","c","d","e","f">>

Sha256Digest(body) == [i \in 1..DigestSize |-> (body * 89 + i * 7) % 256]

HexDigest(bytes) ==
    [j \in 1..(2 * Len(bytes)) |->
        IF j % 2 = 1 THEN HexDigits[(bytes[(j + 1) \div 2] \div 16) + 1]
                     ELSE HexDigits[(bytes[j \div 2] % 16) + 1]]

Sha256Hex(body) == HexDigest(Sha256Digest(body))

Bodies == 1..MaxBody

----------------------------------------------------------------------------
(* The manifest file.  json.dump writes "{", one chunk per top-level        *)
(* key/value pair, and "}"; json.load accepts exactly such a complete text. *)
Tok(t, k, v) == [t |-> t, k |-> k, v |-> v]
LBrace == Tok("{", "", Str(<<>>))
RBrace == Tok("}", "", Str(<<>>))

JsonDump(m) ==
    <<LBrace>> \o [i \in 1..Len(m) |-> Tok("pair", m[i].k, m[i].v)] \o <<RBrace>>

JsonWellFormed(text) ==
    /\ Len(text) >= 2
    /\ text[1] = LBrace
    /\ text[Len(text)] = RBrace
    /\ \A i \in 2..(Len(text) - 1) : text[i].t = "pair"

(* json.load: [ok |-> FALSE] stands for JSONDecodeError *)
JsonLoad(text) ==
    IF JsonWellFormed(text)
    THEN [ok |-> TRUE,
          value |-> [i \in 1..(Len(text) - 2) |-> [k |-> text[i + 1].k, v |-> text[i + 1].v]]]
    ELSE [ok |-> FALSE, value |-> <<>>]

NoFile == [exists |-> FALSE, text |-> <<>>]
File(text) == [exists |-> TRUE, text |-> text]

(* load_manifest: [ok |-> FALSE] stands for the None it returns on          *)
(* FileNotFoundError or JSONDecodeError                                     *)
load_manifest(d) ==
    IF ~d.exists THEN [ok |-> FALSE, value |-> <<>>] ELSE JsonLoad(d.text)

(* Manifests the file may hold when a run starts *)
OldEntry(label) ==
    [k |-> label, v |-> [url |-> "old/" \o label, hash |-> Sha256Hex(0)]]
OldArch == <<OldEntry("64bit"), OldEntry("32bit"), OldEntry("arm64")>>
OtherField == [k |-> "description", v |-> Str(<<"d">>)]
FullManifest(ver) ==
    <<[k |-> "version", v |-> Str(ver)], OtherField,
      [k |-> "architecture", v |-> Obj(OldArch)]>>
InitialManifests ==
    {FullManifest(ver) : ver \in {<<"2">>, <<"1">>}}
    \cup { <<>>,             \* the file holds {}
           <<OtherField>> }  \* neither version nor architecture
InitialFiles ==
    {NoFile, File(<<LBrace, Tok("pair", "version", Str(<<"1">>))>>)}
    \cup {File(JsonDump(m)) : m \in InitialManifests}

----------------------------------------------------------------------------
(* Releases *)
(* tags: some leading "v"s, then a version that may itself contain a "v" *)
Vs(n) == [i \in 1..n |-> "v"]
TagSuffixes == {<<"2">>, <<"2", "v">>}
Tags == {Vs(n) \o suffix : n \in 0..MaxLeadingV, suffix \in TagSuffixes}

(* ARCH_MAPPINGS, in the dict's iteration order *)
ARCH_MAPPINGS ==
    <<[key |-> "x86_64-windows",  label |-> "64bit"],
      [key |-> "x86-windows-gnu", label |-> "32bit"],
      [key |-> "aarch64-windows", label |-> "arm64"]>>
Labels == {ARCH_MAPPINGS[i].label : i \in 1..Len(ARCH_MAPPINGS)}

Asset(name, url) == [name |-> name, browser_download_url |-> url]
AssetCatalogue ==
    { Asset(<<"mufiz_", "x86_64-windows", ".zip">>, "u1"),
      Asset(<<"mufiz_", "x86-windows-gnu", ".zip">>, "u2"),
      Asset(<<"mufiz_", "aarch64-windows", ".zip">>, "u3"),
      Asset(<<"x86-windows-gnu", "_", "x86_64-windows", ".zip">>, "u4"),
      Asset(<<"mufiz_", "x86_64-windows", ".tar.gz">>, "u5") }
AssetLists ==
    {l \in SeqsUpTo(AssetCatalogue, MaxAssets) :
        \A i, j \in 1..Len(l) : i # j => l[i] # l[j]}

(* `arch_key in asset_name` and asset_name.endswith(".zip"), on fragments *)
Contains(name, frag) == \E i \in 1..Len(name) : name[i] = frag
EndsWith(name, frag) == Len(name) > 0 /\ name[Len(name)] = frag

ArchMatches(arch_key, asset_name) ==
    Contains(asset_name, arch_key) /\ EndsWith(asset_name, ".zip")

(* the inner for loop with its break: index of the first matching table     *)
(* entry, 0 when no entry matches                                           *)
MatchArch(asset_name) ==
    LET hits == {i \in 1..Len(ARCH_MAPPINGS) : ArchMatches(ARCH_MAPPINGS[i].key, asset_name)}
    IN IF hits = {} THEN 0 ELSE CHOOSE i \in hits : \A j \in hits : i <= j

(* variant: a label keeps the first URL stored for it *)
StoreUrlFirstWins(urls, scoop_arch, download_url) ==
    IF DictHas(urls, scoop_arch) THEN urls ELSE DictSet(urls, scoop_arch, download_url)

(* urls[scoop_arch] = download_url *)
StoreUrl(urls, scoop_arch, download_url) == DictSet(urls, scoop_arch, download_url)

RECURSIVE FindFrom(_, _, _)
FindFrom(assets, i, urls) ==
    IF i > Len(assets) THEN urls
    ELSE LET m == MatchArch(assets[i].name)
         IN FindFrom(assets, i + 1,
                IF m = 0 THEN urls
                ELSE StoreUrl(urls, ARCH_MAPPINGS[m].label, assets[i].browser_download_url))

find_asset_urls(rel) == FindFrom(rel.assets, 1, <<>>)

(* release["tag_name"].lstrip("v") *)
DeriveVersion(tag_name) == LStrip(tag_name, "v")

Unknown == <<"u", "n", "k", "n", "o", "w", "n">>
(* manifest.get("version", "unknown") *)
CurrentVersion(m) == DictGet(m, "version", Str(Unknown)).s

(* variant: the comparison inverted *)
UpToDateInverted(ver, current_version) == ver # current_version

(* `if version == current_version` *)
UpToDate(ver, current_version) == ver = current_version

(* `if not manifest`: None and the empty dict are both falsy *)
Falsy(loaded) == ~loaded.ok \/ loaded.value = <<>>

(* variant: the dry-run flag is ignored *)
WritesFileAlways(dry) == TRUE

(* the else branch of `if self.dry_run` is the only caller of save_manifest *)
WritesFile(dry) == ~dry

(* variant: the new entries are merged into the old architecture section *)
RECURSIVE DictMerge(_, _, _)
DictMerge(base, upd, i) ==
    IF i > Len(upd) THEN base
    ELSE DictMerge(DictSet(base, upd[i].k, upd[i].v), upd, i + 1)
CommitMerge(m, ver, archs) ==
    DictSet(DictSet(m, "version", Str(ver)), "architecture",
            Obj(DictMerge(DictGet(m, "architecture", Obj(<<>>)).a, archs, 1)))

(* manifest["version"] = version; manifest["architecture"] = updated_archs *)
Commit(m, ver, archs) ==
    DictSet(DictSet(m, "version", Str(ver)), "architecture", Obj(archs))

ApiUrl == "https://api.github.com/repos/Mufi-Lang/MufiZ/releases/latest"
Get(url, ok, body) == [url |-> url, ok |-> ok, body |-> body]
NoRelease == [tag_name |-> <<>>, assets |-> <<>>]

----------------------------------------------------------------------------
(* Manifest Updater *)

Init ==
    /\ dry_run \in BOOLEAN
    /\ disk \in InitialFiles
    /\ disk0 = disk
    /\ pc = "main"
    /\ release = NoRelease
    /\ version = <<>>
    /\ manifest = <<>>
    /\ asset_urls = <<>>
    /\ updated_archs = <<>>
    /\ idx = 1
    /\ out = <<>>
    /\ exit_code = -1
    /\ net = <<>>
    /\ r_pc = "idle"
    /\ r_i = 1
    /\ output = <<>>
    /\ r_stdout = <<>>

(* main(), after update_manifest returned `success`: the closing message    *)
(* and sys.exit(0) or sys.exit(1)                                           *)
Return(success, lines) ==
    /\ out' = out \o lines \o
              <<IF success
                THEN (IF dry_run THEN "Dry run completed successfully!"
                                 ELSE "Update completed successfully!")
                ELSE "Update failed!">>
    /\ exit_code' = IF success THEN 0 ELSE 1
    /\ pc' = "exit"

(* variant: main() without the os.path.exists check *)
MainCheckSkipped ==
    /\ pc = "main"
    /\ out' = IF dry_run THEN out \o <<"Running in DRY RUN mode">> ELSE out
    /\ pc' = "fetch"
    /\ UNCHANGED <<dry_run, disk, disk0, release, version, manifest, asset_urls,
                   updated_archs, idx, net, exit_code, reporterVars>>

(* main(): the os.path.exists check that precedes the updater *)
MainCheck ==
    /\ pc = "main"
    /\ IF ~disk.exists
       THEN /\ out' = out \o <<"Error: Manifest file not found!">>
            /\ exit_code' = 1
            /\ pc' = "exit"
       ELSE /\ out' = IF dry_run THEN out \o <<"Running in DRY RUN mode">> ELSE out
            /\ pc' = "fetch"
            /\ UNCHANGED exit_code
    /\ UNCHANGED <<dry_run, disk, disk0, release, version, manifest, asset_urls,
                   updated_archs, idx, net, reporterVars>>

(* update_manifest, lines 98-104: get_latest_release and the version *)
FetchRelease ==
    /\ pc = "fetch"
    /\ \/ /\ net' = Append(net, Get(ApiUrl, FALSE, 0))
          /\ Return(FALSE, <<"Error fetching latest release">>)
          /\ UNCHANGED <<release, version>>
       \/ \E tag \in Tags, assets \in AssetLists :
            /\ net' = Append(net, Get(ApiUrl, TRUE, 0))
            /\ release' = [tag_name |-> tag, assets |-> assets]
            /\ version' = DeriveVersion(tag)
            /\ out' = Append(out, "Latest version")
            /\ pc' = "load"
            /\ UNCHANGED exit_code
    /\ UNCHANGED <<dry_run, disk, disk0, manifest, asset_urls, updated_archs, idx,
                   reporterVars>>

(* update_manifest, lines 106-124: load_manifest, the version comparison    *)
(* and find_asset_urls                                                      *)
LoadAndResolve ==
    /\ pc = "load"
    /\ LET loaded == load_manifest(disk)
           urls == find_asset_urls(release)
       IN IF Falsy(loaded)
          THEN /\ Return(FALSE, IF loaded.ok THEN <<>> ELSE <<"Error loading manifest">>)
               /\ UNCHANGED <<manifest, asset_urls>>
          ELSE /\ manifest' = loaded.value
               /\ IF UpToDate(version, CurrentVersion(loaded.value))
                  THEN /\ Return(TRUE, <<"Manifest is already up to date!">>)
                       /\ UNCHANGED asset_urls
                  ELSE /\ asset_urls' = urls
                       /\ out' = out \o <<"Updating">> \o
                                 (IF Len(urls) # ExpectedAssets
                                  THEN <<"Warning: Expected 3 assets">> ELSE <<>>)
                       /\ pc' = "download"
                       /\ UNCHANGED exit_code
    /\ UNCHANGED <<dry_run, disk, disk0, release, version, updated_archs, idx, net,
                   reporterVars>>

(* variant: a failed download skips the label instead of returning False *)
DownloadAndHashContinue ==
    /\ pc = "download"
    /\ idx <= Len(asset_urls)
    /\ LET arch == asset_urls[idx].k
           url == asset_urls[idx].v
       IN \/ /\ net' = Append(net, Get(url, FALSE, 0))
             /\ out' = out \o <<"Error downloading", "Failed to process">>
             /\ idx' = idx + 1
             /\ UNCHANGED <<updated_archs, pc, exit_code>>
          \/ \E body \in Bodies :
               /\ net' = Append(net, Get(url, TRUE, body))
               /\ updated_archs' = DictSet(updated_archs, arch,
                                           [url |-> url, hash |-> Sha256Hex(body)])
               /\ idx' = idx + 1
               /\ out' = Append(out, "Processed")
               /\ UNCHANGED <<pc, exit_code>>
    /\ UNCHANGED <<dry_run, disk, disk0, release, version, manifest, asset_urls,
                   reporterVars>>

(* update_manifest, lines 128-136: one iteration of the loop over           *)
(* asset_urls.items(), with download_and_hash                               *)
DownloadAndHash ==
    /\ pc = "download"
    /\ idx <= Len(asset_urls)
    /\ LET arch == asset_urls[idx].k
           url == asset_urls[idx].v
       IN \/ /\ net' = Append(net, Get(url, FALSE, 0))
             /\ Return(FALSE, <<"Error downloading", "Failed to process">>)
             /\ UNCHANGED <<updated_archs, idx>>
          \/ \E body \in Bodies :
               /\ net' = Append(net, Get(url, TRUE, body))
               /\ updated_archs' = DictSet(updated_archs, arch,
                                           [url |-> url, hash |-> Sha256Hex(body)])
               /\ idx' = idx + 1
               /\ out' = Append(out, "Processed")
               /\ UNCHANGED <<pc, exit_code>>
    /\ UNCHANGED <<dry_run, disk, disk0, release, version, manifest, asset_urls,
                   reporterVars>>

(* update_manifest, lines 138-160, after the loop: commit in memory, then   *)
(* preview or save_manifest.  open(..., "w") truncates the file before      *)
(* json.dump writes; a failure may come from open (file untouched) or from  *)
(* a write (the file holds what was written so far).                        *)
CommitAndPersist ==
    /\ pc = "download"
    /\ idx > Len(asset_urls)
    /\ LET m == Commit(manifest, version, updated_archs)
           text == JsonDump(m)
       IN /\ manifest' = m
          /\ IF ~WritesFile(dry_run)
             THEN /\ Return(TRUE, <<"DRY RUN MODE", "Dry run completed">>)
                  /\ UNCHANGED disk
             ELSE \/ /\ UNCHANGED disk
                     /\ Return(FALSE, <<"Saving", "Error saving manifest", "Failed to save manifest">>)
                  \/ \E n \in 0..(Len(text) - 1) :
                       /\ disk' = File(SubSeq(text, 1, n))
                       /\ Return(FALSE, <<"Saving", "Error saving manifest", "Failed to save manifest">>)
                  \/ /\ disk' = File(text)
                     /\ Return(TRUE, <<"Saving", "Successfully updated">>)
    /\ UNCHANGED <<dry_run, disk0, release, version, asset_urls, updated_archs, idx,
                   net, reporterVars>>

Next ==
    \/ MainCheck
    \/ FetchRelease
    \/ LoadAndResolve
    \/ DownloadAndHash
    \/ CommitAndPersist

Spec == Init /\ [][Next]_vars

----------------------------------------------------------------------------
(* Hash Reporter (hashes.py) *)
TAG == "next-experimental"
VERSION == "0.10.0"
Link(arch) ==
    "https://github.com/Mustafif/MufiZ/releases/download/" \o TAG \o
    "/mufiz_" \o VERSION \o "_" \o arch \o ".zip"
links == <<Link("x86_64-windows"), Link("x86-windows-gnu"), Link("aarch64-windows")>>

(* variant: the labels of the first two positions exchanged *)
LabelAtSwapped(i) ==
    IF i = 1 THEN "32bit" ELSE IF i = 2 THEN "64bit" ELSE "arm64"

(* the if/elif chain on i (0-based in the code, 1-based here) *)
LabelAt(i) ==
    IF i = 1 THEN "64bit" ELSE IF i = 2 THEN "32bit" ELSE "arm64"

(* json.dumps(output), as tokens *)
NoEntry == [url |-> "", hash |-> <<>>]
JsonDumps(d) ==
    <<[t |-> "{", k |-> "", v |-> NoEntry]>>
    \o [i \in 1..Len(d) |-> [t |-> "pair", k |-> d[i].k, v |-> d[i].v]]
    \o <<[t |-> "}", k |-> "", v |-> NoEntry]>>

InitReporter ==
    /\ dry_run = FALSE
    /\ disk \in InitialFiles
    /\ disk0 = disk
    /\ pc = "idle"
    /\ release = NoRelease
    /\ version = <<>>
    /\ manifest = <<>>
    /\ asset_urls = <<>>
    /\ updated_archs = <<>>
    /\ idx = 1
    /\ out = <<>>
    /\ exit_code = -1
    /\ net = <<>>
    /\ r_pc = "loop"
    /\ r_i = 1
    /\ output = <<>>
    /\ r_stdout = <<>>

(* one iteration of the loop, lines 16-24; requests.get either returns a    *)
(* response (of any status: raise_for_status is not called) or raises,      *)
(* which nothing catches                                                    *)
ReporterGet ==
    /\ r_pc = "loop"
    /\ r_i <= Len(links)
    /\ \/ /\ net' = Append(net, Get(links[r_i], FALSE, 0))
          /\ r_pc' = "fault"
          /\ exit_code' = 1
          /\ UNCHANGED <<r_i, output>>
       \/ \E body \in Bodies :
            /\ net' = Append(net, Get(links[r_i], TRUE, body))
            /\ output' = DictSet(output, LabelAt(r_i),
                                 [url |-> links[r_i], hash |-> Sha256Hex(body)])
            /\ r_i' = r_i + 1
            /\ UNCHANGED <<r_pc, exit_code>>
    /\ UNCHANGED <<dry_run, disk, disk0, pc, release, version, manifest, asset_urls,
                   updated_archs, idx, out, r_stdout>>

(* lines 26-28 *)
ReporterPrint ==
    /\ r_pc = "loop"
    /\ r_i > Len(links)
    /\ r_stdout' = JsonDumps(output)
    /\ r_pc' = "printed"
    /\ exit_code' = 0
    /\ UNCHANGED <<dry_run, disk, disk0, pc, release, version, manifest, asset_urls,
                   updated_archs, idx, out, net, r_i, output>>

NextReporter ==
    \/ ReporterGet
    \/ ReporterPrint

SpecReporter == InitReporter /\ [][NextReporter]_vars

----------------------------------------------------------------------------
(* Vocabulary of the properties *)
Printed(line) == \E i \in 1..Len(out) : out[i] = line

Downloads == {i \in 1..Len(net) : net[i].url # ApiUrl}
FailedDownloads == {i \in Downloads : ~net[i].ok}
ReleaseFetched == Len(net) >= 1 /\ net[1].url = ApiUrl /\ net[1].ok

(* the manifest as the run loaded it: the file is not written before *)
Loaded == load_manifest(disk0)

(* an asset resolves to the label of the first table entry whose substring  *)
(* its name contains, provided the name ends with ".zip"                    *)
Resolves(asset, label) ==
    /\ EndsWith(asset.name, ".zip")
    /\ \E i \in 1..Len(ARCH_MAPPINGS) :
         /\ ARCH_MAPPINGS[i].label = label
         /\ Contains(asset.name, ARCH_MAPPINGS[i].key)
         /\ \A j \in 1..(i - 1) : ~Contains(asset.name, ARCH_MAPPINGS[j].key)
Recognized(asset) == \E label \in Labels : Resolves(asset, label)
ResolvedLabels(rel) ==
    {label \in Labels : \E i \in 1..Len(rel.assets) : Resolves(rel.assets[i], label)}
FirstResolving(rel, label) ==
    CHOOSE i \in 1..Len(rel.assets) :
        /\ Resolves(rel.assets[i], label)
        /\ \A j \in 1..(i - 1) : ~Resolves(rel.assets[j], label)
LastResolving(rel, label) ==
    CHOOSE i \in 1..Len(rel.assets) :
        /\ Resolves(rel.assets[i], label)
        /\ \A j \in (i + 1)..Len(rel.assets) : ~Resolves(rel.assets[j], label)
(* the state in which find_asset_urls has just returned *)
JustResolved == pc = "download" /\ idx = 1

(* the hash of the body the network served for url *)
ServedHash(url) ==
    Sha256Hex(net[CHOOSE i \in 1..Len(net) : net[i].url = url /\ net[i].ok].body)

IsHex64(h) == Len(h) = 64 /\ \A i \in 1..Len(h) : h[i] \in Range(HexDigits)

Saved == pc = "exit" /\ Printed("Successfully updated")

----------------------------------------------------------------------------
(* C1: whenever the loaded manifest's version field equals the version      *)
(* derived from the release tag, the run reports "already up to date",      *)
(* exits 0, downloads nothing and leaves the file as it was at start.       *)
C1_UpToDateNoMutation ==
    (/\ pc \in {"download", "exit"}
     /\ ReleaseFetched
     /\ Loaded.ok
     /\ DictHas(Loaded.value, "version")
     /\ CurrentVersion(Loaded.value) = version)
    => /\ pc = "exit"
       /\ Printed("Manifest is already up to date!")
       /\ exit_code = 0
       /\ Downloads = {}
       /\ disk = disk0

C1_Witness ==
    /\ pc = "exit"
    /\ ~dry_run
    /\ ReleaseFetched
    /\ Loaded.ok
    /\ DictHas(Loaded.value, "version")
    /\ CurrentVersion(Loaded.value) = version
    /\ release.tag_name = <<"v", "2">>
    /\ Len(release.assets) = 3
    /\ exit_code = 0

(* C2: in dry-run mode the manifest file is never written, on any path:     *)
(* in every state of a dry run the file holds what it held at start.        *)
C2_DryRunNeverWrites == dry_run => disk = disk0

C2_Witness ==
    /\ dry_run
    /\ pc = "exit"
    /\ Printed("Dry run completed")
    /\ Len(updated_archs) = 3
    /\ exit_code = 0

(* C3: a failed download aborts the run at once with exit status 1 and the  *)
(* file unchanged, whichever asset fails; and the file differs from its     *)
(* initial content only after every resolved label has been hashed.         *)
C3_DownloadFailureAborts ==
    /\ \A i \in FailedDownloads :
         /\ i = Len(net)
         /\ pc = "exit"
         /\ exit_code = 1
         /\ disk = disk0
    /\ disk # disk0 =>
         /\ idx > Len(asset_urls)
         /\ \A j \in 1..Len(asset_urls) :
              \E i \in Downloads : net[i].url = asset_urls[j].v /\ net[i].ok

C3_Witness ==
    /\ ~dry_run
    /\ pc = "exit"
    /\ exit_code = 1
    /\ Len(asset_urls) = 3
    /\ Len(updated_archs) = 2
    /\ FailedDownloads = {Len(net)}
    /\ disk = disk0

(* C4: when saving the manifest fails, the failure is reported, the run     *)
(* exits 1, and the file still holds the manifest it held before the run.   *)
C4_SaveFailureKeepsFile ==
    Printed("Error saving manifest") =>
        /\ exit_code = 1
        /\ Printed("Failed to save manifest")
        /\ disk = disk0

(* C5, as stated: after a successful non-dry-run update the file holds the  *)
(* loaded manifest with version replaced by the stripped tag and            *)
(* architecture replaced by one {url, hash} entry per resolved label, every *)
(* other field as loaded; and a release with exactly 3 recognized assets    *)
(* yields exactly the 3 labels.                                             *)
WrittenManifest == JsonLoad(disk.text).value
WrittenArch == DictGet(WrittenManifest, "architecture", Obj(<<>>)).a
OtherFields(m) == SelectSeq(m, LAMBDA e : e.k \notin {"version", "architecture"})
RecognizedAssets(rel) == {i \in 1..Len(rel.assets) : Recognized(rel.assets[i])}

C5_Core ==
    LET file == JsonLoad(disk.text)
        w == file.value
        arch == DictGet(w, "architecture", Obj(<<>>)).a
        labs == ResolvedLabels(release)
        old == Loaded.value
    IN /\ file.ok
       /\ DictGet(w, "version", Str(Unknown)) = Str(LStrip(release.tag_name, "v"))
       /\ DictGet(w, "architecture", Str(Unknown)).t = "obj"
       /\ Len(arch) = Cardinality(labs)
       /\ {arch[i].k : i \in 1..Len(arch)} = labs
       /\ \A i \in 1..Len(arch) :
            /\ \E j \in 1..Len(release.assets) :
                 /\ Resolves(release.assets[j], arch[i].k)
                 /\ release.assets[j].browser_download_url = arch[i].v.url
            /\ arch[i].v.hash = ServedHash(arch[i].v.url)
       /\ OtherFields(w) = OtherFields(old)
       /\ Len(w) =
            Len(old)
            + (IF DictHas(old, "version") THEN 0 ELSE 1)
            + (IF DictHas(old, "architecture") THEN 0 ELSE 1)

C5_AsStated ==
    Saved =>
        /\ C5_Core
        /\ Cardinality(RecognizedAssets(release)) = 3 =>
             {WrittenArch[i].k : i \in 1..Len(WrittenArch)} = Labels

(* C5, amended: the same, where the 3-label case is a release whose         *)
(* recognized assets resolve to 3 different labels.                         *)
C5_SuccessfulUpdate ==
    Saved =>
        /\ C5_Core
        /\ Cardinality(ResolvedLabels(release)) = 3 =>
             /\ {WrittenArch[i].k : i \in 1..Len(WrittenArch)} = Labels
             /\ Len(WrittenArch) = 3

C5_Witness ==
    /\ Saved
    /\ exit_code = 0
    /\ Len(WrittenArch) = 3
    /\ release.tag_name = <<"v", "2">>
    /\ Loaded.value = FullManifest(<<"1">>)
    /\ disk # disk0

(* C6: every run ends with status 0 or 1; 0 exactly on success (up to date, *)
(* preview completed, saved) and 1 exactly on a fetch, load, download or    *)
(* save failure or a missing manifest file.                                 *)
SomeFailure ==
    \/ Printed("Error: Manifest file not found!")
    \/ Printed("Error fetching latest release")
    \/ Printed("Error loading manifest")
    \/ Printed("Error downloading")
    \/ Printed("Error saving manifest")
SomeSuccess ==
    \/ Printed("Manifest is already up to date!")
    \/ Printed("Dry run completed")
    \/ Printed("Successfully updated")

C6_ExitStatus ==
    pc = "exit" =>
        /\ exit_code \in {0, 1}
        /\ exit_code = 0 <=> SomeSuccess
        /\ exit_code = 1 <=> SomeFailure

(* C7: when the manifest file does not exist at start, the run exits 1      *)
(* without issuing any network request.                                     *)
C7_MissingFileNoNetwork ==
    ~disk0.exists =>
        /\ net = <<>>
        /\ pc \in {"main", "exit"}
        /\ pc = "exit" => exit_code = 1

C7_Witness ==
    /\ ~disk0.exists
    /\ pc = "exit"
    /\ exit_code = 1
    /\ net = <<>>
    /\ Printed("Error: Manifest file not found!")

(* C8: when all three GETs returned, the printed JSON has exactly the keys  *)
(* "64bit", "32bit", "arm64" in that order, the i-th entry holding the i-th *)
(* URL and the 64-hex-digit SHA-256 of the body returned for it; no file is *)
(* touched.                                                                 *)
PrintedPairs == SubSeq(r_stdout, 2, Len(r_stdout) - 1)

C8_ReporterOutput ==
    /\ r_pc = "printed" =>
         /\ Len(r_stdout) = 5
         /\ r_stdout[1].t = "{" /\ r_stdout[5].t = "}"
         /\ [i \in 1..3 |-> PrintedPairs[i].k] = <<"64bit", "32bit", "arm64">>
         /\ \A i \in 1..3 :
              /\ PrintedPairs[i].t = "pair"
              /\ PrintedPairs[i].v.url = links[i]
              /\ net[i].url = links[i]
              /\ PrintedPairs[i].v.hash = Sha256Hex(net[i].body)
              /\ IsHex64(PrintedPairs[i].v.hash)
    /\ r_pc # "idle" => disk = disk0

C8_Witness ==
    /\ r_pc = "printed"
    /\ Len(net) = 3
    /\ net[1].body # net[2].body
    /\ exit_code = 0

(* C9, as stated: the URL stored for a label is that of the FIRST asset in  *)
(* list order that resolves to the label.                                   *)
C9_FirstAssetWins ==
    JustResolved =>
        \A j \in 1..Len(asset_urls) :
            /\ asset_urls[j].k \in ResolvedLabels(release)
            /\ asset_urls[j].v =
                 release.assets[FirstResolving(release, asset_urls[j].k)].browser_download_url

(* C9, amended: the stored labels are exactly the labels some asset         *)
(* resolves to, each once, and the URL stored for a label is that of the    *)
(* LAST asset in list order that resolves to it (a later asset overwrites); *)
(* an asset resolves to the label of the first table entry whose substring  *)
(* its name contains, and only if its name ends with ".zip".                *)
C9_LastAssetWins ==
    JustResolved =>
        LET labs == ResolvedLabels(release)
        IN /\ {asset_urls[j].k : j \in 1..Len(asset_urls)} = labs
           /\ Len(asset_urls) = Cardinality(labs)
           /\ \A j \in 1..Len(asset_urls) :
                asset_urls[j].v =
                   release.assets[LastResolving(release, asset_urls[j].k)].browser_download_url

C9_Witness ==
    /\ JustResolved
    /\ Len(release.assets) = 3
    /\ \E j \in 1..Len(asset_urls) :
         /\ asset_urls[j].k = "64bit"
         /\ asset_urls[j].v = "u4"
         /\ FirstResolving(release, "64bit") # LastResolving(release, "64bit")

(* C10: the derived version is the tag with one leading "v" removed when it *)
(* has one, the tag itself otherwise; it is what is compared with the       *)
(* manifest's version and what is stored as the new version.                *)
C10_StripOneV ==
    /\ pc \in {"load", "download", "exit"} /\ ReleaseFetched =>
         version = RemovePrefix(release.tag_name, "v")
    /\ (pc = "exit" /\ ReleaseFetched /\ Loaded.ok /\ Loaded.value # <<>>
        /\ CurrentVersion(Loaded.value) = RemovePrefix(release.tag_name, "v")) =>
         Printed("Manifest is already up to date!")
    /\ Saved =>
         DictGet(WrittenManifest, "version", Str(Unknown)) =
            Str(RemovePrefix(release.tag_name, "v"))

TypeOK ==
    /\ dry_run \in BOOLEAN
    /\ pc \in {"idle", "main", "fetch", "load", "download", "exit"}
    /\ r_pc \in {"idle", "loop", "printed", "fault"}
    /\ exit_code \in {-1, 0, 1}
    /\ idx \in 1..(Len(asset_urls) + 1)
====
